---- MODULE Spec2Model ----
(***************************************************************************)
(* ReplayCADmiumJSON.py: replay of a CADmium / Fusion360-ds JSON row into  *)
(* a CAD document.  The script is one procedure, run(context); the model   *)
(* follows it from host call to host call.  The document is the log `ops`  *)
(* of host calls issued, the user sees the message boxes `msgs`.           *)
(*                                                                         *)
(* Numbers.  JSON lengths are integers counted in units of 1e-12 JSON      *)
(* length units, so that the 1e-9 cm threshold of the body move is 1000.   *)
(* Angles are integers counted in units of 5e-7 degree, so that the 1e-6   *)
(* degree tolerance of the flip test is 2.  sketch_scale is a plain        *)
(* integer factor.                                                         *)
(***************************************************************************)
EXTENDS Integers, Sequences, FiniteSets, TLC

VARIABLES
    pc,           \* position in run
    design,       \* the active product is a Fusion design
    ui,           \* app.userInterface is available
    dialogShown,  \* the file dialog has been shown
    file,         \* what open() and json.load() gave (once loaded # "none")
    loaded,       \* "none", "cancel", "failed", "noparts", "parts": outcome of the load
    nparts,       \* number of entries of the 'parts' mapping
    parts,        \* the entries read so far (indices into PartList), in order
    profile,      \* the local `profile`: position of the profile last picked (0: None)
    ops,          \* host calls issued on the document, in order
    msgs,         \* message boxes shown, in order
    caught,       \* exception caught by the handler of run ("none": none)
    swallowed,    \* exceptions swallowed by an inner try/except
    profs         \* argument of _pick_profile_for_circles (SpecPick only)

vars == << pc, design, ui, dialogShown, file, loaded, nparts, parts, profile,
           ops, msgs, caught, swallowed, profs >>

---------------------------------------------------------------------------
(* Bounds of the model *)

MaxParts == 2
MaxProfiles == 3
MaxLoops == 3

(* Program constants *)

UNIT_MULT == 100
\* 1e-9 (cm), in units of 1e-12
MoveEps == 1000
\* 1e-6 (degrees), in units of 5e-7
FlipEps == 2
\* 180.0 and 360.0 degrees, in units of 5e-7
Deg180 == 180 * 2000000
Deg360 == 360 * 2000000

Abs(x) == IF x < 0 THEN -x ELSE x

---------------------------------------------------------------------------
(* JSON values.  A mapping whose keys the code reads is a function from    *)
(* strings; dict.get(k, d) is Get.  A value the code tests with isinstance *)
(* is a record [t, m]: t = "obj" for a mapping, whose values in insertion  *)
(* order are m.                                                            *)

EmptyMap == [k \in {} |-> 0]
Get(m, k, d) == IF k \in DOMAIN m THEN m[k] ELSE d

Obj(vals) == [t |-> "obj", m |-> vals]
NonObj == [t |-> "num", m |-> <<>>]
IsDict(v) == v.t = "obj"

Circle(cx, cy, r) == Obj(("Center" :> <<cx, cy>>) @@ ("Radius" :> r))

\* sketches: face -> loop -> entity
SkOne == Obj(<< Obj(<< Obj(<< Circle(3, 4, 5) >>) >>) >>)
SkRing == Obj(<< Obj(<< Obj(<< Circle(0, 0, 7) >>), Obj(<< Circle(0, 0, 2) >>) >>) >>)
SkMixed ==
    Obj(<< NonObj,
           Obj(<< NonObj,
                  Obj(<< NonObj,
                         Obj("Center" :> <<1, 1>>),
                         Obj("Radius" :> 4),
                         Obj(("Center" :> <<-6, 1>>) @@ ("Radius" :> 3) @@ ("Kind" :> 0)),
                         Obj(EmptyMap) >>) >>),
           Obj(<< >>) >>)
SkNoCircle == Obj(<< Obj(<< Obj(<< Obj("Radius" :> 4), NonObj >>) >>), NonObj >>)
SkBadCenter ==
    Obj(<< Obj(<< Obj(<< Circle(1, 2, 3),
                         Obj(("Center" :> <<1, 2, 3>>) @@ ("Radius" :> 4)),
                         Circle(5, 5, 5) >>) >>) >>)

Csys(eu, tv) == ("Euler Angles" :> eu) @@ ("Translation Vector" :> tv)
Ext(scale, depth, op) ==
    ("sketch_scale" :> scale) @@ ("extrude_depth_towards_normal" :> depth)
        @@ ("operation" :> op)
Part(cs, sk, ex) == ("coordinate_system" :> cs) @@ ("sketch" :> sk) @@ ("extrusion" :> ex)

\* the entries a 'parts' mapping is made of
PartList ==
    << ("sketch" :> SkOne),
       Part(Csys(<<Deg180, 0, 0>>, <<10, -20, 20>>), SkOne, Ext(2, 5, "JoinFeatureOperation")),
       Part(Csys(<<Deg180 + Deg360, 0, 0>>, <<1, 2, 5>>), SkRing,
            Ext(3, 4, "CutFeatureOperation")),
       Part(Csys(<<1 - Deg180, 0, 0>>, <<0, 0, -20>>), SkMixed,
            Ext(1, -6, "IntersectFeatureOperation")),
       Part(Csys(<<Deg180 - 3, Deg180, 0>>, <<4, 0, -5>>), SkRing,
            ("extrude_depth_towards_normal" :> 8)),
       Part(("Euler Angles" :> <<Deg180, 0>>), SkOne, Ext(2, 7, "joinfeatureoperation")),
       Part(Csys(<<0, 0, 0>>, <<1, 1, 20>>), SkNoCircle, Ext(1, 5, "JoinFeatureOperation")),
       ("extrusion" :> Ext(1, 5, "NewBodyFeatureOperation")),
       Part(Csys(<<0, 0, 0>>, <<1, 2>>), SkOne, Ext(1, 5, "NewBodyFeatureOperation")),
       Part(Csys(<<0, 0, 0>>, <<0, 0, 20>>), SkBadCenter, Ext(1, 5, "NewBodyFeatureOperation")),
       Part(Csys(<<0, 0, 0>>, <<0, 0, 0>>), NonObj, Ext(1, 5, "NewBodyFeatureOperation")) >>

\* the i-th entry read: its key and its value
KeyOf(i) == << "part", i >>
PartOf(i) == PartList[parts[i]]
idx == Len(parts)

\* what open() and json.load() can give
Files ==
    { [readable |-> FALSE, data |-> NonObj],
      [readable |-> TRUE, data |-> NonObj],
      [readable |-> TRUE, data |-> Obj(EmptyMap)],
      [readable |-> TRUE, data |-> Obj("other" :> [t |-> "obj", n |-> 1])] }
    \cup { [readable |-> TRUE, data |-> Obj("parts" :> [t |-> ty, n |-> n])] :
               ty \in {"obj", "arr"}, n \in 0 .. MaxParts }

---------------------------------------------------------------------------
(* The stateless helpers *)

\* adsk.fusion.FeatureOperations, by the names of the table in _map_operation
OpTable ==
    ("NewBodyFeatureOperation" :> "ops.NewBodyFeatureOperation")
        @@ ("JoinFeatureOperation" :> "ops.JoinFeatureOperation")
        @@ ("CutFeatureOperation" :> "ops.CutFeatureOperation")
        @@ ("IntersectFeatureOperation" :> "ops.IntersectFeatureOperation")

\* variant: unknown names fall back to Join
map_operation_join(op_str) == Get(OpTable, op_str, "ops.JoinFeatureOperation")
map_operation(op_str) == Get(OpTable, op_str, "ops.NewBodyFeatureOperation")

\* A profile of a sketch: its profileLoops raise on access, or hold `count` loops.
Profiles ==
    { [raises |-> TRUE, count |-> 0] }
        \cup { [raises |-> FALSE, count |-> n] : n \in 0 .. MaxLoops }
ProfSeqs == UNION { [1 .. n -> Profiles] : n \in 0 .. MaxProfiles }

\* `p.profileLoops and p.profileLoops.count == 2`, inside try/except: pass
TwoLoops(p) == IF p.raises THEN FALSE ELSE p.count # 0 /\ p.count = 2

\* the for loop of _pick_profile_for_circles from item(i - 1) on: the position
\* of the profile returned in the loop, 0 when the loop ends without a return
RECURSIVE AnnulusFrom(_, _)
AnnulusFrom(ps, i) ==
    IF i > Len(ps) THEN 0
    ELSE IF TwoLoops(ps[i]) THEN i
    ELSE AnnulusFrom(ps, i + 1)

\* variant: the last profile with two loops is preferred
pick_profile_last(ps) ==
    IF Len(ps) = 0 THEN 0
    ELSE IF \E i \in 1 .. Len(ps) : TwoLoops(ps[i])
         THEN CHOOSE i \in 1 .. Len(ps) :
                  TwoLoops(ps[i]) /\ \A j \in i + 1 .. Len(ps) : ~TwoLoops(ps[j])
         ELSE 1
\* the profile returned, as its position in sketch.profiles (item(i) is position
\* i + 1), 0 for None
pick_profile_for_circles(ps) ==
    IF Len(ps) = 0 THEN 0
    ELSE IF AnnulusFrom(ps, 1) # 0 THEN AnnulusFrom(ps, 1)
    ELSE 1

\* the profiles whose loops are accessed (those up to the one returned) and raise
LoopsRaised(ps) ==
    LET stop == IF AnnulusFrom(ps, 1) # 0 THEN AnnulusFrom(ps, 1) ELSE Len(ps)
    IN  \E i \in 1 .. stop : ps[i].raises

\* float() of a JSON number: the same number
Float(v) == v

\* what sketch.profiles can hold when run asks for a profile
HostProfiles ==
    { <<>>,
      << [raises |-> FALSE, count |-> 1] >>,
      << [raises |-> TRUE, count |-> 0], [raises |-> FALSE, count |-> 2] >> }

\* the translation vector of a part (before unpacking) and its Euler angles
Translation(part) ==
    Get(Get(part, "coordinate_system", EmptyMap), "Translation Vector", <<0, 0, 0>>)
EulerDeg(part) ==
    Get(Get(part, "coordinate_system", EmptyMap), "Euler Angles", <<0, 0, 0>>)
SkScale(part) == Float(Get(Get(part, "extrusion", EmptyMap), "sketch_scale", 1))

\* tx_cm, ty_cm, tz_cm
scale_cm(v) == v * UNIT_MULT

\* the values of the mappings among vals, one after the other
RECURSIVE Children(_)
Children(vals) ==
    IF vals = <<>> THEN <<>>
    ELSE (IF IsDict(Head(vals)) THEN Head(vals).m ELSE <<>>) \o Children(Tail(vals))

IsCircle(v) == IsDict(v) /\ "Center" \in DOMAIN v.m /\ "Radius" \in DOMAIN v.m

\* variant: only the first face of the sketch is walked
Entities_first_face(sketch_dict) ==
    IF sketch_dict.m = <<>> THEN <<>>
    ELSE SelectSeq(Children(Children(<< Head(sketch_dict.m) >>)), IsCircle)
\* the entities the three nested loops of run reach and do not skip, in order
Entities(sketch_dict) ==
    SelectSeq(Children(Children(sketch_dict.m)), IsCircle)

\* variant: sketch_scale applied to the translated centre
circle_args_scaled_t(c, tx, ty, sk) ==
    [cx |-> (sk * (tx + c.m["Center"][1])) * UNIT_MULT,
     cy |-> (sk * (ty + c.m["Center"][2])) * UNIT_MULT,
     r |-> (sk * c.m["Radius"]) * UNIT_MULT]
\* cx_cm, cy_cm, r_cm
circle_args(c, tx, ty, sk) ==
    [cx |-> (tx + sk * c.m["Center"][1]) * UNIT_MULT,
     cy |-> (ty + sk * c.m["Center"][2]) * UNIT_MULT,
     r |-> (sk * c.m["Radius"]) * UNIT_MULT]

\* the entities drawn before `cx, cy = circ_val['Center']` fails to unpack
RECURSIVE WellFormedPrefix(_)
WellFormedPrefix(es) ==
    IF es = <<>> \/ Len(Head(es).m["Center"]) # 2 THEN <<>>
    ELSE << Head(es) >> \o WellFormedPrefix(Tail(es))

\* variant: flip only at exactly 180.0, no remainder and no tolerance
flip_exact(euler_deg) ==
    LET ex == IF Len(euler_deg) = 3 THEN euler_deg[1] ELSE 0
    IN  ex = Deg180
\* flip: ex is euler_deg[0] of a list of three, the remainder is Python's
flip(euler_deg) ==
    LET ex == IF Len(euler_deg) = 3 THEN euler_deg[1] ELSE 0
    IN  Abs((ex % Deg360) - Deg180) < FlipEps

depth_pos(part) ==
    Float(Get(Get(part, "extrusion", EmptyMap), "extrude_depth_towards_normal", 0))
        * UNIT_MULT
distance_cm(part) == IF flip(EulerDeg(part)) THEN -depth_pos(part) ELSE depth_pos(part)
operation(part) ==
    map_operation(Get(Get(part, "extrusion", EmptyMap), "operation",
                      "NewBodyFeatureOperation"))

\* abs(tz_cm) > 1e-9
needs_move(tz_cm) == Abs(tz_cm) > MoveEps

---------------------------------------------------------------------------
(* Host calls and message boxes *)

SketchOp(i, ok) == [op |-> "sketch", part |-> i, ok |-> ok, plane |-> "xYConstructionPlane"]
CircleOp(i, a, ok) == [op |-> "circle", part |-> i, ok |-> ok, cx |-> a.cx, cy |-> a.cy, r |-> a.r]
ProfileOp(i, p) == [op |-> "profile", part |-> i, ok |-> TRUE, picked |-> p]
ExtrudeOp(i, p, o, d, ok, n) ==
    [op |-> "extrude", part |-> i, ok |-> ok, profile |-> p, operation |-> o,
     distance |-> d, bodies |-> n]
RenameOp(i, name, ok) == [op |-> "rename", part |-> i, ok |-> ok, name |-> name]
MoveOp(i, v, ok) == [op |-> "move", part |-> i, ok |-> ok, dx |-> v[1], dy |-> v[2], dz |-> v[3]]

Msg(kind, key) == [kind |-> kind, part |-> key]

\* _move_body(root, body, 0.0, 0.0, tz_cm)
move_vector(tz_cm) == << 0, 0, tz_cm >>

\* variant: the test of an empty 'parts' is missing
not_parts_never(p) == FALSE
\* `not parts`
not_parts(p) == p.n = 0

\* variant: the except clause shows nothing
handler_silent(exc) ==
    /\ caught' = exc
    /\ msgs' = msgs
    /\ pc' = "done"
\* the except clause of run
handler(exc) ==
    /\ caught' = exc
    /\ msgs' = IF ui THEN Append(msgs, Msg("Failed", <<>>)) ELSE msgs
    /\ pc' = "done"

---------------------------------------------------------------------------
(* run *)

Init ==
    /\ pc = "start"
    /\ design \in BOOLEAN
    /\ ui = TRUE
    /\ dialogShown = FALSE
    /\ file = [readable |-> FALSE, data |-> NonObj]
    /\ loaded = "none"
    /\ nparts = 0
    /\ parts = <<>>
    /\ profile = 0
    /\ ops = <<>>
    /\ msgs = <<>>
    /\ caught = "none"
    /\ swallowed = {}
    /\ profs = <<>>

\* _ensure_design
EnsureDesign ==
    /\ pc = "start"
    /\ IF design
         THEN pc' = "dialog" /\ UNCHANGED << caught, msgs >>
         ELSE handler("design")
    /\ UNCHANGED << design, ui, dialogShown, file, loaded, nparts, parts, profile, ops,
                    swallowed, profs >>

\* createFileDialog ... showOpen
ShowDialog ==
    /\ pc = "dialog"
    /\ dialogShown' = TRUE
    /\ \E result \in {"DialogOK", "DialogCancel"} :
           IF result # "DialogOK"
             THEN pc' = "done" /\ loaded' = "cancel"
             ELSE pc' = "load" /\ loaded' = loaded
    /\ UNCHANGED << design, ui, file, nparts, parts, profile, ops, msgs, caught,
                    swallowed, profs >>

\* open, json.load, data.get('parts', {}), `if not parts`, parts.items()
LoadJSON ==
    /\ pc = "load"
    /\ \E f \in Files :
           /\ file' = f
           /\ IF ~f.readable
                THEN handler("file") /\ loaded' = "failed" /\ nparts' = nparts
                ELSE IF ~IsDict(f.data)
                THEN handler("data") /\ loaded' = "failed" /\ nparts' = nparts
                ELSE LET p == Get(f.data.m, "parts", [t |-> "obj", n |-> 0])
                     IN  IF not_parts(p)
                           THEN /\ msgs' = Append(msgs, Msg("NoParts", <<>>))
                                /\ loaded' = "noparts"
                                /\ pc' = "done"
                                /\ UNCHANGED << caught, nparts >>
                           ELSE IF p.t # "obj"
                           THEN handler("parts") /\ loaded' = "failed" /\ nparts' = nparts
                           ELSE /\ loaded' = "parts"
                                /\ nparts' = p.n
                                /\ pc' = "loop"
                                /\ UNCHANGED << caught, msgs >>
    /\ UNCHANGED << design, ui, dialogShown, parts, profile, ops, swallowed, profs >>

\* variant: the loop ends after the first entry
exhausted_early(i, n) == i >= 1
\* `for part_name, part in parts.items()` has no entry left
exhausted(i, n) == i = n

\* variant: drew_any set whether or not a circle was drawn
drew_any_always(n) == TRUE
\* drew_any
drew_any(n) == n # 0

\* the next entry of parts.items(): its coordinate system is read and the
\* translation vector unpacked
BeginPart ==
    /\ pc = "loop"
    /\ ~exhausted(idx, nparts)
    /\ \E k \in 1 .. Len(PartList) :
           /\ parts' = Append(parts, k)
           /\ IF Len(Translation(PartList[k])) # 3
                THEN handler("translation")
                ELSE pc' = "sketch" /\ UNCHANGED << caught, msgs >>
    /\ UNCHANGED << design, ui, dialogShown, file, loaded, nparts, profile, ops,
                    swallowed, profs >>

\* root.sketches.add(xy_plane)
AddSketch ==
    /\ pc = "sketch"
    /\ \E ok \in BOOLEAN :
           /\ ops' = Append(ops, SketchOp(idx, ok))
           /\ IF ok
                THEN pc' = "circles" /\ UNCHANGED << caught, msgs >>
                ELSE handler("sketch")
    /\ UNCHANGED << design, ui, dialogShown, file, loaded, nparts, parts, profile,
                    swallowed, profs >>

\* the three nested loops over the sketch, and `if not drew_any`
DrawCircles ==
    /\ pc = "circles"
    /\ LET part == PartOf(idx)
           sketch_dict == Get(part, "sketch", Obj(<<>>))
       IN  IF ~IsDict(sketch_dict)
             THEN handler("sketch_dict") /\ ops' = ops
             ELSE LET es == Entities(sketch_dict)
                      good == WellFormedPrefix(es)
                      tv == Translation(part)
                      args == [k \in 1 .. Len(good) |->
                                   circle_args(good[k], tv[1], tv[2], SkScale(part))]
                  IN  \E fail \in 0 .. Len(good) :
                          /\ ops' = ops \o [k \in 1 .. (IF fail = 0 THEN Len(good) ELSE fail)
                                               |-> CircleOp(idx, args[k], k # fail)]
                          /\ IF fail # 0 THEN handler("circle")
                             ELSE IF Len(good) < Len(es) THEN handler("center")
                             ELSE IF ~drew_any(Len(good))
                               THEN /\ msgs' = Append(msgs, Msg("NoCircles", KeyOf(idx)))
                                    /\ pc' = "loop"
                                    /\ caught' = caught
                             ELSE pc' = "profile" /\ UNCHANGED << caught, msgs >>
    /\ UNCHANGED << design, ui, dialogShown, file, loaded, nparts, parts, profile,
                    swallowed, profs >>

\* _pick_profile_for_circles(sketch) and `if not profile`
PickProfile ==
    /\ pc = "profile"
    /\ \E ps \in HostProfiles :
           LET p == pick_profile_for_circles(ps)
           IN  /\ ops' = Append(ops, ProfileOp(idx, p))
               /\ profile' = p
               /\ swallowed' = IF LoopsRaised(ps) THEN swallowed \cup {"profileLoops"}
                               ELSE swallowed
               /\ IF p = 0
                    THEN /\ msgs' = Append(msgs, Msg("NoProfile", KeyOf(idx)))
                         /\ pc' = "loop"
                    ELSE pc' = "extrude" /\ msgs' = msgs
    /\ UNCHANGED << design, ui, dialogShown, file, loaded, nparts, parts, caught, profs >>

\* createInput, setDistanceExtent, extrudes.add
Extrude ==
    /\ pc = "extrude"
    /\ \E res \in {"raises", "nobody", "body"} :
           /\ ops' = Append(ops, ExtrudeOp(idx, profile, operation(PartOf(idx)),
                                           distance_cm(PartOf(idx)), res # "raises",
                                           IF res = "body" THEN 1 ELSE 0))
           /\ IF res = "raises" THEN handler("extrude")
              ELSE /\ pc' = IF res = "body" THEN "name" ELSE "loop"
                   /\ UNCHANGED << caught, msgs >>
    /\ UNCHANGED << design, ui, dialogShown, file, loaded, nparts, parts, profile,
                    swallowed, profs >>

\* body.name = part_name, inside try/except: pass; then the test of tz_cm
NameBody ==
    /\ pc = "name"
    /\ \E ok \in BOOLEAN :
           /\ ops' = Append(ops, RenameOp(idx, KeyOf(idx), ok))
           /\ IF ok
                THEN /\ pc' = IF needs_move(scale_cm(Translation(PartOf(idx))[3]))
                              THEN "move" ELSE "loop"
                     /\ swallowed' = swallowed
                ELSE /\ pc' = "loop"
                     /\ swallowed' = swallowed \cup {"rename"}
    /\ UNCHANGED << design, ui, dialogShown, file, loaded, nparts, parts, profile, msgs,
                    caught, profs >>

\* _move_body, inside the same try/except: pass
MoveBody ==
    /\ pc = "move"
    /\ \E ok \in BOOLEAN :
           /\ ops' = Append(ops, MoveOp(idx, move_vector(scale_cm(Translation(PartOf(idx))[3])),
                                        ok))
           /\ swallowed' = IF ok THEN swallowed ELSE swallowed \cup {"move"}
    /\ pc' = "loop"
    /\ UNCHANGED << design, ui, dialogShown, file, loaded, nparts, parts, profile, msgs,
                    caught, profs >>

\* ui.messageBox('Replay complete.') after the loop
Complete ==
    /\ pc = "loop"
    /\ exhausted(idx, nparts)
    /\ msgs' = Append(msgs, Msg("Complete", <<>>))
    /\ pc' = "done"
    /\ UNCHANGED << design, ui, dialogShown, file, loaded, nparts, parts, profile, ops,
                    caught, swallowed, profs >>

Next ==
    \/ EnsureDesign
    \/ ShowDialog
    \/ LoadJSON
    \/ BeginPart
    \/ AddSketch
    \/ DrawCircles
    \/ PickProfile
    \/ Extrude
    \/ NameBody
    \/ MoveBody
    \/ Complete

Spec == Init /\ [][Next]_vars

---------------------------------------------------------------------------
(* _pick_profile_for_circles on its own: any profiles, then the call *)

InitPick ==
    /\ pc = "pick"
    /\ profs \in ProfSeqs
    /\ design = TRUE
    /\ ui = TRUE
    /\ dialogShown = FALSE
    /\ file = [readable |-> FALSE, data |-> NonObj]
    /\ loaded = "none"
    /\ nparts = 0
    /\ parts = <<>>
    /\ profile = 0
    /\ ops = <<>>
    /\ msgs = <<>>
    /\ caught = "none"
    /\ swallowed = {}

CallPick ==
    /\ pc = "pick"
    /\ profile' = pick_profile_for_circles(profs)
    /\ swallowed' = IF LoopsRaised(profs) THEN {"profileLoops"} ELSE {}
    /\ pc' = "picked"
    /\ UNCHANGED << design, ui, dialogShown, file, loaded, nparts, parts, ops, msgs,
                    caught, profs >>

SpecPick == InitPick /\ [][CallPick]_vars

---------------------------------------------------------------------------
(* Vocabulary of the properties *)

OpsOf(i) == SelectSeq(ops, LAMBDA o : o.part = i)
KindOps(i, k) == SelectSeq(ops, LAMBDA o : o.part = i /\ o.op = k)
Count(i, k) == Len(KindOps(i, k))
MsgCount(kind) == Len(SelectSeq(msgs, LAMBDA m : m.kind = kind))
Warnings(i) ==
    SelectSeq(msgs, LAMBDA m : m.kind \in {"NoCircles", "NoProfile"} /\ m.part = KeyOf(i))

\* the iteration of part i has ended without an exception: processed or skipped
Finished(i) ==
    \/ i < idx
    \/ i = idx /\ (pc = "loop" \/ (pc = "done" /\ caught = "none"))
Skipped(i) == Len(Warnings(i)) > 0

Rank(k) ==
    CASE k = "sketch" -> 1
      [] k = "circle" -> 2
      [] k = "profile" -> 3
      [] k = "extrude" -> 4
      [] k = "rename" -> 5
      [] k = "move" -> 6

\* the JSON numbers of part i, read key by key
JsonTz(i) ==
    IF "coordinate_system" \in DOMAIN PartOf(i)
       /\ "Translation Vector" \in DOMAIN PartOf(i)["coordinate_system"]
    THEN PartOf(i)["coordinate_system"]["Translation Vector"][3]
    ELSE 0
JsonTxy(i) ==
    IF "coordinate_system" \in DOMAIN PartOf(i)
       /\ "Translation Vector" \in DOMAIN PartOf(i)["coordinate_system"]
    THEN PartOf(i)["coordinate_system"]["Translation Vector"]
    ELSE <<0, 0, 0>>
JsonEuler(i) ==
    IF "coordinate_system" \in DOMAIN PartOf(i)
       /\ "Euler Angles" \in DOMAIN PartOf(i)["coordinate_system"]
    THEN PartOf(i)["coordinate_system"]["Euler Angles"]
    ELSE <<0, 0, 0>>
JsonExt(i, key, default) ==
    IF "extrusion" \in DOMAIN PartOf(i) /\ key \in DOMAIN PartOf(i)["extrusion"]
    THEN PartOf(i)["extrusion"][key]
    ELSE default

---------------------------------------------------------------------------
(* C1 *)

\* C1 as stated: every exception raised during run is reported in exactly one
\* 'Failed' message box, and no failure of body naming or body move is handled
\* in another way (swallowed, the run going on).
C1_AsStated ==
    /\ caught # "none" => MsgCount("Failed") = 1
    /\ swallowed \cap {"rename", "move"} = {}
    /\ \A j \in 1 .. Len(ops) : ~ops[j].ok => caught # "none"

\* C1, amended: an exception raised in the try block of run outside the body
\* naming / body move block (missing design, unreadable or malformed JSON, a
\* malformed part, a failing sketch, circle or extrude call) ends the run with
\* exactly one 'Failed' message box, the last box shown; a failing body naming
\* or body move (and a raising profile loop access) is swallowed without any
\* message box and the run goes on with the next part.
C1_Amended ==
    /\ caught # "none" =>
           /\ pc = "done"
           /\ MsgCount("Failed") = 1
           /\ msgs[Len(msgs)].kind = "Failed"
    /\ caught = "none" => MsgCount("Failed") = 0
    /\ ~design /\ pc # "start" => caught = "design"
    /\ loaded \in {"failed", "noparts", "parts"} =>
           (caught \in {"file", "data", "parts"}
                <=> \/ ~file.readable
                    \/ file.data.t # "obj"
                    \/ /\ "parts" \in DOMAIN file.data.m
                       /\ file.data.m["parts"].t # "obj"
                       /\ file.data.m["parts"].n > 0)
    /\ \A i \in 1 .. idx :
           Len(JsonTxy(i)) # 3 => i = idx /\ caught = "translation"
    /\ \A j \in 1 .. Len(ops) :
           ~ops[j].ok =>
               IF ops[j].op \in {"rename", "move"}
               THEN /\ ops[j].op \in swallowed
                    /\ caught = "none" => pc # "done" \/ MsgCount("Complete") = 1
               ELSE j = Len(ops) /\ caught = ops[j].op
    /\ swallowed \subseteq {"rename", "move", "profileLoops"}

\* a run in which a failing body naming was swallowed and went on to a later
\* part, whose failing extrusion was reported
C1_Witness ==
    /\ pc = "done"
    /\ caught = "extrude"
    /\ \E j \in 1 .. Len(ops) : ops[j].op = "rename" /\ ~ops[j].ok /\ ops[j].part < idx
    /\ MsgCount("Failed") = 1

---------------------------------------------------------------------------
(* C2 *)

\* the order of the host operations, within a part and between parts
OpsInOrder ==
    /\ ops # <<>> => ops[1].op = "sketch" /\ ops[1].part = 1
    /\ \A j \in 1 .. Len(ops) - 1 :
           LET a == ops[j]
               b == ops[j + 1]
           IN  IF a.part = b.part
               THEN Rank(a.op) < Rank(b.op) \/ (a.op = "circle" /\ b.op = "circle")
               ELSE b.part = a.part + 1 /\ b.op = "sketch"
    /\ \A j \in 1 .. Len(ops) :
           /\ ops[j].op = "extrude" =>
                  /\ \E c \in 1 .. j - 1 :
                         ops[c].op = "circle" /\ ops[c].part = ops[j].part /\ ops[c].ok
                  /\ \E c \in 1 .. j - 1 :
                         /\ ops[c].op = "profile" /\ ops[c].part = ops[j].part
                         /\ ops[c].picked # 0 /\ ops[c].picked = ops[j].profile
           /\ ops[j].op = "move" =>
                  \E c \in 1 .. j - 1 :
                      /\ ops[c].op = "extrude" /\ ops[c].part = ops[j].part
                      /\ ops[c].ok /\ ops[c].bodies > 0
    /\ \A i \in 1 .. idx : Count(i, "extrude") <= 1 /\ Count(i, "move") <= 1

\* C2 as stated: for every part the host operations occur in the fixed order
\* sketch, circles, profile selection, exactly one extrusion, at most one move.
C2_AsStated ==
    /\ OpsInOrder
    /\ \A i \in 1 .. idx : Finished(i) => Count(i, "extrude") = 1

\* C2, amended: the operations of a part occur in the order sketch, circles,
\* profile selection, extrusion, move, with at most one extrusion and at most
\* one move; a part that is not skipped (for having no circle or no profile)
\* gets exactly one extrusion and a skipped part none; no extrusion before a
\* circle and a non-null profile, no move before the extrusion, and the parts
\* one after the other.
C2_Amended ==
    /\ OpsInOrder
    /\ \A i \in 1 .. idx :
           Finished(i) => Count(i, "extrude") = (IF Skipped(i) THEN 0 ELSE 1)

\* two parts done, the first extruded and moved, the second skipped
C2_Witness ==
    /\ idx = 2
    /\ Finished(2)
    /\ Count(1, "circle") >= 1
    /\ Count(1, "extrude") = 1
    /\ Count(1, "move") = 1
    /\ Skipped(2)

---------------------------------------------------------------------------
(* C3 *)

\* C3: every sketch is on the XY construction plane; every move is by
\* (0, 0, tz * UNIT_MULT); a part whose extrusion produced a body is moved exactly
\* once if |tz * UNIT_MULT| > 1e-9 and not at all otherwise.
C3_AsStated ==
    /\ \A j \in 1 .. Len(ops) :
           /\ ops[j].op = "sketch" => ops[j].plane = "xYConstructionPlane"
           /\ ops[j].op = "move" =>
                  /\ ops[j].dx = 0
                  /\ ops[j].dy = 0
                  /\ ops[j].dz = JsonTz(ops[j].part) * UNIT_MULT
    /\ \A i \in 1 .. idx :
           Finished(i) /\ (\E j \in 1 .. Len(ops) :
                               /\ ops[j].op = "extrude" /\ ops[j].part = i
                               /\ ops[j].ok /\ ops[j].bodies > 0)
               => Count(i, "move") =
                      (IF Abs(JsonTz(i) * UNIT_MULT) > MoveEps THEN 1 ELSE 0)

---------------------------------------------------------------------------
(* C4 *)

ExtrudeOps == { j \in 1 .. Len(ops) : ops[j].op = "extrude" }
JsonDepthCm(i) == JsonExt(i, "extrude_depth_towards_normal", 0) * UNIT_MULT

---------------------------------------------------------------------------
(* C5 *)

\* C5: the extrusion of a part is created with the host operation of the same
\* name as the part's 'operation' when that is one of NewBody, Join, Cut and
\* Intersect, and with NewBody for every other name and when the key is absent.
C5_MapOperation ==
    \A j \in ExtrudeOps :
        LET name == JsonExt(ops[j].part, "operation", "absent")
        IN  ops[j].operation =
                CASE name = "NewBodyFeatureOperation" -> "ops.NewBodyFeatureOperation"
                  [] name = "JoinFeatureOperation" -> "ops.JoinFeatureOperation"
                  [] name = "CutFeatureOperation" -> "ops.CutFeatureOperation"
                  [] name = "IntersectFeatureOperation" -> "ops.IntersectFeatureOperation"
                  [] OTHER -> "ops.NewBodyFeatureOperation"

\* an extrusion with an unknown name and one with no 'operation' at all, both
\* created as NewBody
C5_Witness ==
    /\ idx = 2
    /\ JsonExt(1, "operation", "absent") = "joinfeatureoperation"
    /\ JsonExt(2, "operation", "absent") = "absent"
    /\ \E j, k \in ExtrudeOps :
           /\ ops[j].part = 1 /\ ops[j].operation = "ops.NewBodyFeatureOperation"
           /\ ops[k].part = 2 /\ ops[k].operation = "ops.NewBodyFeatureOperation"

---------------------------------------------------------------------------
(* C6 *)

PartsMissingOrEmpty ==
    /\ file.readable
    /\ file.data.t = "obj"
    /\ "parts" \in DOMAIN file.data.m => file.data.m["parts"].n = 0

\* C6: 'Replay complete.' is shown at most once, only after every part has been
\* iterated (processed or skipped), never when the dialog was cancelled, 'parts'
\* was missing or empty or a 'Failed' box is shown; it is shown at the end of every
\* other run, also when every part was skipped.
C6_ReplayComplete ==
    /\ MsgCount("Complete") <= 1
    /\ MsgCount("Complete") = 1 =>
           /\ pc = "done"
           /\ msgs[Len(msgs)].kind = "Complete"
           /\ idx = nparts
           /\ \A i \in 1 .. nparts :
                  /\ Count(i, "sketch") = 1
                  /\ Skipped(i) \/ Count(i, "extrude") = 1
           /\ loaded = "parts"
           /\ ~PartsMissingOrEmpty
           /\ MsgCount("Failed") = 0
           /\ MsgCount("NoParts") = 0
    /\ pc = "done" /\ loaded = "parts" /\ caught = "none" => MsgCount("Complete") = 1
    /\ pc = "done" /\ loaded \in {"cancel", "noparts", "failed"} => MsgCount("Complete") = 0

\* the report after a run in which both parts were skipped and nothing extruded
C6_Witness ==
    /\ MsgCount("Complete") = 1
    /\ nparts = 2
    /\ Skipped(1)
    /\ Skipped(2)
    /\ ExtrudeOps = {}

---------------------------------------------------------------------------
(* C8 *)

\* C8: the circle of an entity with Center (cx, cy) and Radius r is drawn with
\* centre ((tx + s*cx) * UNIT_MULT, (ty + s*cy) * UNIT_MULT) and radius
\* s*r * UNIT_MULT, s the sketch_scale (1 when absent); the extrusion distance is
\* the depth times UNIT_MULT up to its sign, the move is tz * UNIT_MULT along Z.
C8_Scaling ==
    /\ \A i \in 1 .. idx :
           LET cs == KindOps(i, "circle")
               es == Entities(Get(PartOf(i), "sketch", Obj(<<>>)))
               s == JsonExt(i, "sketch_scale", 1)
           IN  \A j \in 1 .. Len(cs) :
                   /\ cs[j].cx = (JsonTxy(i)[1] + s * es[j].m["Center"][1]) * UNIT_MULT
                   /\ cs[j].cy = (JsonTxy(i)[2] + s * es[j].m["Center"][2]) * UNIT_MULT
                   /\ cs[j].r = s * es[j].m["Radius"] * UNIT_MULT
    /\ \A j \in 1 .. Len(ops) :
           /\ ops[j].op = "extrude" =>
                  Abs(ops[j].distance) = Abs(JsonDepthCm(ops[j].part))
           /\ ops[j].op = "move" =>
                  << ops[j].dx, ops[j].dy, ops[j].dz >>
                      = << 0, 0, JsonTz(ops[j].part) * UNIT_MULT >>

\* the part with translation (10, -20, 20), sketch_scale 2, depth 5 and the circle
\* (3, 4) of radius 5: drawn at (1600, -1200) with radius 1000, extruded by 500
\* and moved by 2000
C8_Witness ==
    \E a, b, c \in 1 .. Len(ops) :
        /\ ops[a] = CircleOp(1, [cx |-> 1600, cy |-> -1200, r |-> 1000], TRUE)
        /\ ops[b].op = "extrude" /\ ops[b].part = 1 /\ ops[b].distance = -500
        /\ ops[c].op = "move" /\ ops[c].part = 1 /\ ops[c].dz = 2000

---------------------------------------------------------------------------
(* C9 *)

\* the face / loop / entity positions of a sketch that hold a mapping with both
\* 'Center' and 'Radius', mappings all the way down
CircleEntries(sk) ==
    UNION { UNION { { << f, l, e >> :
                        e \in { e \in 1 .. Len(sk.m[f].m[l].m) :
                                  LET v == sk.m[f].m[l].m[e]
                                  IN  /\ v.t = "obj"
                                      /\ {"Center", "Radius"} \subseteq DOMAIN v.m } } :
                    l \in { l \in 1 .. Len(sk.m[f].m) : sk.m[f].m[l].t = "obj" } } :
            f \in { f \in 1 .. Len(sk.m) : sk.m[f].t = "obj" } }
EntryCount(i) ==
    IF "sketch" \in DOMAIN PartOf(i) /\ PartOf(i)["sketch"].t = "obj"
    THEN Cardinality(CircleEntries(PartOf(i)["sketch"]))
    ELSE 0
PickedNone(i) == \E j \in 1 .. Len(ops) :
                     ops[j].op = "profile" /\ ops[j].part = i /\ ops[j].picked = 0

\* C9: a part whose iteration ended has exactly one sketch and as many circles as
\* its sketch has face / loop / entity mappings with 'Center' and 'Radius'; if that
\* number is zero or no profile was found it has exactly one warning naming it, no
\* extrusion and no move, and the loop goes on to the next part; no other part has
\* a warning.
C9_CirclesAndSkips ==
    \A i \in 1 .. idx :
        /\ Finished(i) \/ Count(i, "profile") > 0 \/ (i = idx /\ pc = "profile")
               => Count(i, "circle") = EntryCount(i)
        /\ Finished(i) =>
               /\ Count(i, "sketch") = 1
               /\ IF EntryCount(i) = 0 \/ PickedNone(i)
                  THEN /\ Len(Warnings(i)) = 1
                       /\ Warnings(i)[1].kind =
                              (IF EntryCount(i) = 0 THEN "NoCircles" ELSE "NoProfile")
                       /\ Count(i, "extrude") = 0
                       /\ Count(i, "rename") = 0
                       /\ Count(i, "move") = 0
                       /\ i = idx /\ i < nparts => pc = "loop"
                  ELSE Len(Warnings(i)) = 0

\* a part whose sketch holds non-mappings and entities without radius is skipped
\* with its sketch added, and the next part, with one circle entry among
\* non-mappings and incomplete entities, is drawn and extruded
C9_Witness ==
    /\ parts = << 7, 4 >>
    /\ Skipped(1)
    /\ Count(1, "sketch") = 1
    /\ Count(1, "circle") = 0
    /\ Count(2, "circle") = 1
    /\ Count(2, "extrude") = 1

---------------------------------------------------------------------------
(* C10 *)

\* C10: no host call on the document before a JSON file with a non-empty 'parts'
\* mapping is loaded; without a design the dialog is never shown; a cancelled
\* dialog ends the run with no message box; missing or empty 'parts' end it with
\* the one message 'No "parts" found in JSON.'.
C10_NothingBeforeLoad ==
    /\ ops # <<>> =>
           /\ loaded = "parts"
           /\ file.readable
           /\ file.data.t = "obj"
           /\ "parts" \in DOMAIN file.data.m
           /\ file.data.m["parts"] = [t |-> "obj", n |-> nparts]
           /\ nparts > 0
    /\ ~design => ~dialogShown /\ loaded = "none"
    /\ loaded = "cancel" => pc = "done" /\ msgs = <<>> /\ ops = <<>>
    /\ loaded # "none" /\ loaded # "cancel" /\ PartsMissingOrEmpty =>
           /\ pc = "done"
           /\ msgs = << Msg("NoParts", <<>>) >>
           /\ ops = <<>>

\* a file whose 'parts' is an empty mapping: the one message, nothing done
C10_Witness ==
    /\ loaded = "noparts"
    /\ "parts" \in DOMAIN file.data.m
    /\ file.data.m["parts"] = [t |-> "obj", n |-> 0]
    /\ msgs = << Msg("NoParts", <<>>) >>
    /\ ops = <<>>
    /\ pc = "done"

---------------------------------------------------------------------------
(* C7 *)

Annuli == { i \in 1 .. Len(profs) : ~profs[i].raises /\ profs[i].count = 2 }

\* C7: _pick_profile_for_circles returns None exactly when there is no profile;
\* otherwise the first profile with exactly two loops if there is one and the
\* first profile if there is none; a profile whose loops raise counts as not
\* having two loops and the selection goes on.
C7_PickProfile ==
    pc = "picked" =>
        /\ profile = 0 <=> Len(profs) = 0
        /\ Len(profs) > 0 =>
               IF Annuli # {}
               THEN profile \in Annuli /\ \A i \in Annuli : profile <= i
               ELSE profile = 1

\* the loops of the first profile raise, the second has three loops, the third
\* two: the third is returned
C7_Witness ==
    /\ pc = "picked"
    /\ Len(profs) = 3
    /\ profs[1].raises
    /\ profs[2] = [raises |-> FALSE, count |-> 3]
    /\ profs[3] = [raises |-> FALSE, count |-> 2]
    /\ profile = 3

====
